---- MODULE Spec2Model ----
(***************************************************************************)
(* Paint property binders of src/mbgl/style/paint_property_binder.hpp:     *)
(* one PaintPropertyBinders set over the property list <<color, opacity>>, *)
(* its three binder strategies, the attribute encoder and the             *)
(* interpolation factor.                                                    *)
(*                                                                         *)
(* Floats are modelled exactly on a grid: property values and colour       *)
(* channels are counted in quarters (2 stands for 0.5), zooms are whole    *)
(* numbers, and an interpolation factor is a reduced fraction <<n, d>>.    *)
(***************************************************************************)
EXTENDS Integers, Sequences, FiniteSets, TLC

\* ------------------------------------------------------------------------
\* Bounds of the model
\* ------------------------------------------------------------------------
MaxLen == 2          \* largest target length passed to populateVertexVectors
MaxOps == 3          \* populateVertexVectors and upload calls per run

Features == {"f1", "f2"}
BuildZooms == {12}
DrawZooms == {9, 12, 13, 14, 15}

\* ------------------------------------------------------------------------
\* The property list Ps... and the types of each property
\* ------------------------------------------------------------------------
Props == <<"color", "opacity">>
PropSet == {Props[i] : i \in 1..Len(Props)}
IndexOf(p) == CHOOSE i \in 1..Len(Props) : Props[i] = p

\* A::Dimensions of the base attribute: 2 floats for a colour, 1 for a float
Dimensions(p) == IF p = "color" THEN 2 ELSE 1

None == [tag |-> "none"]

\* the two value types T: a colour of four channels, and a float
Color(r, g, b, a) == [r |-> r, g |-> g, b |-> b, a |-> a]
Float(v) == [v |-> v]

\* Ps::defaultValue()
defaultValue(p) == IF p = "color" THEN Color(0, 0, 0, 4) ELSE Float(4)

\* ------------------------------------------------------------------------
\* Attribute encoder
\* ------------------------------------------------------------------------
\* static_cast<uint16_t>(c * 255) of a channel c = k / 4 (k counts quarters)
ToUint16(k) == ((k * 255) \div 4) % 65536

attributeValueFloat(v) == <<v.v>>

\* attributeValueColor that packs the upper channel with a factor of 255
attributeValueColorNarrow(color) ==
    << ToUint16(color.r) * 255 + ToUint16(color.g),
       ToUint16(color.b) * 255 + ToUint16(color.a) >>

\* attributeValueColor that rounds the scaled channels up instead of truncating
attributeValueColorRoundedUp(color) ==
    << ((color.r * 255 + 3) \div 4) * 256 + ((color.g * 255 + 3) \div 4),
       ((color.b * 255 + 3) \div 4) * 256 + ((color.a * 255 + 3) \div 4) >>

attributeValueColor(color) ==
    << ToUint16(color.r) * 256 + ToUint16(color.g),
       ToUint16(color.b) * 256 + ToUint16(color.a) >>

\* overload resolution on the property's value type T
attributeValue(p, v) ==
    IF p = "color" THEN attributeValueColor(v) ELSE attributeValueFloat(v)

\* result[2i] = min[i], result[2i+1] = max[i]: the two ends interleaved
zoomInterpolatedAttributeValueInterleaved(min, max) ==
    [i \in 1..(2 * Len(min)) |->
        IF i % 2 = 1 THEN min[(i + 1) \div 2] ELSE max[i \div 2]]

\* result[i] = min[i], result[i+N] = max[i]
zoomInterpolatedAttributeValue(min, max) ==
    [i \in 1..(2 * Len(min)) |->
        IF i <= Len(min) THEN min[i] ELSE max[i - Len(min)]]

\* the shader's decoding of a packed pair of floats into four 8-bit channels:
\* high = floor(f / 256), low = f mod 256
decodeColor(value) ==
    [r |-> value[1] \div 256, g |-> value[1] % 256,
     b |-> value[2] \div 256, a |-> value[2] % 256]

\* ------------------------------------------------------------------------
\* Fractions (results of interpolationFactor)
\* ------------------------------------------------------------------------
Abs(x) == IF x < 0 THEN -x ELSE x

RECURSIVE GCD(_, _)
GCD(a, b) == IF b = 0 THEN a ELSE GCD(b, a % b)

\* reduced fraction n/d with d > 0
Frac(n, d) ==
    LET s == IF d < 0 THEN -1 ELSE 1
        g == GCD(Abs(n), Abs(d))
    IN  << (s * n) \div g, (s * d) \div g >>

FracLeq(x, y) == x[1] * y[2] <= y[1] * x[2]

RECURSIVE Pow(_, _)
Pow(b, k) == IF k = 0 THEN 1 ELSE b * Pow(b, k - 1)

\* util::interpolationFactor(base, range, z)
utilInterpolationFactor(base, range, z) ==
    LET zoomDiff == range.max - range.min
        zoomProgress == z - range.min
    IN  IF base = 1
        THEN Frac(zoomProgress, zoomDiff)
        ELSE IF zoomProgress >= 0
             THEN Frac(Pow(base, zoomProgress) - 1, Pow(base, zoomDiff) - 1)
             ELSE Frac(1 - Pow(base, -zoomProgress),
                       Pow(base, -zoomProgress) * (Pow(base, zoomDiff) - 1))

\* ------------------------------------------------------------------------
\* Style functions handed to the binders (the style evaluator's values)
\* ------------------------------------------------------------------------
\* value of feature f1 at a zoom stop; f2 carries no value for the property
StopValue(p, zoom) ==
    IF p = "color" THEN Color((zoom - 8) \div 2, 1, 3, 4) ELSE Float((zoom - 8) \div 2)

InnerStops(p, zoom) ==
    [defined |-> {"f1"}, value |-> [f \in {"f1"} |-> StopValue(p, zoom)]]

SourceFunctions(p) ==
    { [defined |-> {"f1"},
       value |-> [f \in {"f1"} |-> IF p = "color" THEN Color(2, 1, 3, 4) ELSE Float(2)]] }

\* the colour function is linear over the stops 10 and 14, the opacity
\* function is exponential, of base 2, over the stops 10, 12 and 14
CompositeFunctions(p) ==
    IF p = "color"
    THEN { [base |-> 1, zooms |-> {10, 14},
            stops |-> [s \in {10, 14} |-> InnerStops(p, s)]] }
    ELSE { [base |-> 2, zooms |-> {10, 12, 14},
            stops |-> [s \in {10, 12, 14} |-> InnerStops(p, s)]] }

Constants(p) == IF p = "color" THEN {Color(2, 1, 3, 4), Color(4, 0, 0, 4)} ELSE {Float(1), Float(3)}

\* PossiblyEvaluatedPropertyValue<T>
ConstantValue(c) == [tag |-> "constant", constant |-> c]
SourceValue(f) == [tag |-> "source", function |-> f]
CompositeValue(f) == [tag |-> "composite", function |-> f]

\* the constant a property is built from; draw time may pass the other one
BuildConstant(p) == IF p = "color" THEN Color(2, 1, 3, 4) ELSE Float(1)

PropertyValues(p) ==
    {ConstantValue(BuildConstant(p))}
        \cup {SourceValue(f) : f \in SourceFunctions(p)}
        \cup {CompositeValue(f) : f \in CompositeFunctions(p)}

isConstant(value) == value.tag = "constant"

constantOr(value, t) == IF isConstant(value) THEN value.constant ELSE t

\* SourceFunction<T>::evaluate(feature, defaultValue) and the evaluation of
\* one inner stop of a composite function
evaluateSource(function, feature, default) ==
    IF feature \in function.defined THEN function.value[feature] ELSE default

\* CompositeFunction<T>::coveringRanges(zoom)
coveringRanges(function, zoom) ==
    LET below == {s \in function.zooms : s <= zoom /\ \E t \in function.zooms : t > s}
        lo == CHOOSE s \in below : \A t \in below : t <= s
        above == {s \in function.zooms : s > lo}
        hi == CHOOSE s \in above : \A t \in above : s <= t
    IN  << [min |-> lo, max |-> hi],
           [min |-> function.stops[lo], max |-> function.stops[hi]] >>

\* CompositeFunction<T>::evaluate(Range<InnerStops>, feature, defaultValue)
evaluateComposite(innerRange, feature, default) ==
    [min |-> evaluateSource(innerRange.min, feature, default),
     max |-> evaluateSource(innerRange.max, feature, default)]

\* ------------------------------------------------------------------------
\* The three binder strategies
\* ------------------------------------------------------------------------
ConstantPaintPropertyBinder(constant_) ==
    [kind |-> "constant", constant |-> constant_]

SourceFunctionPaintPropertyBinder(function_, defaultValue_) ==
    [kind |-> "source", function |-> function_, defaultValue |-> defaultValue_,
     vertexVector |-> <<>>, vertexBuffer |-> None]

CompositeFunctionPaintPropertyBinder(function_, zoom, defaultValue_) ==
    [kind |-> "composite", function |-> function_, defaultValue |-> defaultValue_,
     coveringRanges |-> coveringRanges(function_, zoom),
     vertexVector |-> <<>>, vertexBuffer |-> None]

\* create that binds a source function as the constant default value
createSourceAsConstant(value, zoom, defaultValue_) ==
    CASE value.tag = "constant" -> ConstantPaintPropertyBinder(value.constant)
      [] value.tag = "source" -> ConstantPaintPropertyBinder(defaultValue_)
      [] value.tag = "composite" ->
            CompositeFunctionPaintPropertyBinder(value.function, zoom, defaultValue_)

\* PaintPropertyBinder::create: value.match over the three alternatives
create(value, zoom, defaultValue_) ==
    CASE value.tag = "constant" -> ConstantPaintPropertyBinder(value.constant)
      [] value.tag = "source" ->
            SourceFunctionPaintPropertyBinder(value.function, defaultValue_)
      [] value.tag = "composite" ->
            CompositeFunctionPaintPropertyBinder(value.function, zoom, defaultValue_)

\* PaintPropertyStatistics: per property, how many values were added and
\* which values they were
NoStatistics == [count |-> 0, observed |-> {}]

\* PaintPropertyStatistics::add<P>(value)
statisticsAdd(statistics_, p, v) ==
    [statistics_ EXCEPT ![p] = [count |-> @.count + 1,
                                observed |-> @.observed \cup {v}]]

\* emplaceUntil with the loop started at 0 instead of at vertexSize()
emplaceFromZero(vertexVector, value, length) ==
    vertexVector \o [i \in 1..length |-> value]

\* emplaceUntil that rewrites a non-empty vector with the new value
emplaceOverwriting(vertexVector, value, length) ==
    [i \in 1..(IF length > Len(vertexVector) THEN length ELSE Len(vertexVector))
        |-> value]

\* for (i = vertexVector.vertexSize(); i < length; ++i) emplace_back(value)
RECURSIVE emplaceUntil(_, _, _)
emplaceUntil(vertexVector, value, length) ==
    IF Len(vertexVector) < length
    THEN emplaceUntil(Append(vertexVector, value), value, length)
    ELSE vertexVector

\* the value one populateVertexVector call of a binder appends per vertex
vertexValue(binder, p, feature) ==
    IF binder.kind = "source"
    THEN attributeValue(p, evaluateSource(binder.function, feature, binder.defaultValue))
    ELSE LET range == evaluateComposite(binder.coveringRanges[2], feature,
                                        binder.defaultValue)
         IN  zoomInterpolatedAttributeValue(attributeValue(p, range.min),
                                            attributeValue(p, range.max))

\* what one populateVertexVector call of a binder adds to the statistics
evaluated(binder, p, feature) ==
    IF binder.kind = "source"
    THEN evaluateSource(binder.function, feature, binder.defaultValue)
    ELSE evaluateComposite(binder.coveringRanges[2], feature, binder.defaultValue)

\* populateVertexVector that records the value only when it appends a vertex
populateVertexVectorRecordingAppends(binder, p, feature, length, statistics_) ==
    IF binder.kind = "constant"
    THEN [binder |-> binder, statistics |-> statistics_]
    ELSE [binder |->
            [binder EXCEPT !.vertexVector =
                emplaceUntil(@, vertexValue(binder, p, feature), length)],
          statistics |->
            IF length > Len(binder.vertexVector)
            THEN statisticsAdd(statistics_, p, evaluated(binder, p, feature))
            ELSE statistics_]

\* populateVertexVector that also writes through to an uploaded buffer
populateVertexVectorWritingBuffer(binder, p, feature, length, statistics_) ==
    IF binder.kind = "constant"
    THEN [binder |-> binder, statistics |-> statistics_]
    ELSE LET grown == emplaceUntil(binder.vertexVector,
                                   vertexValue(binder, p, feature), length)
         IN  [binder |->
                [binder EXCEPT
                    !.vertexVector = grown,
                    !.vertexBuffer = IF @ = None THEN @
                                     ELSE [@ EXCEPT !.vertices = grown]],
              statistics |-> statisticsAdd(statistics_, p,
                                           evaluated(binder, p, feature))]

\* populateVertexVector(feature, length, statistics) of the three binders
populateVertexVector(binder, p, feature, length, statistics_) ==
    IF binder.kind = "constant"
    THEN [binder |-> binder, statistics |-> statistics_]
    ELSE [binder |->
            [binder EXCEPT !.vertexVector =
                emplaceUntil(@, vertexValue(binder, p, feature), length)],
          statistics |-> statisticsAdd(statistics_, p, evaluated(binder, p, feature))]

\* gl::Context::createVertexBuffer(std::move(vertexVector)): a new buffer
\* holding a copy of the vertices, or a failure that creates nothing; the
\* vector handed over is left intact or emptied, as the build moves from it
createVertexBuffer(context_, vertexVector, fails) ==
    [threw |-> fails,
     buffer |-> [id |-> context_.nextId, vertices |-> vertexVector],
     context |-> IF fails THEN context_
                 ELSE [context_ EXCEPT !.nextId = @ + 1],
     vertexVector |-> IF context_.moveEmpties THEN <<>> ELSE vertexVector]

\* upload that hands the context a vector already moved from
uploadMovedFrom(binder, context_, fails) ==
    IF binder.kind = "constant"
    THEN [binder |-> binder, context |-> context_, threw |-> FALSE,
          attempts |-> 0]
    ELSE LET created == createVertexBuffer(context_, <<>>, fails)
         IN  [binder |->
                [binder EXCEPT
                    !.vertexVector = created.vertexVector,
                    !.vertexBuffer = IF created.threw THEN @ ELSE created.buffer],
              context |-> created.context,
              threw |-> created.threw,
              attempts |-> 1]

\* upload(context) of the three binders; attempts counts the calls of
\* createVertexBuffer made
upload(binder, context_, fails) ==
    IF binder.kind = "constant"
    THEN [binder |-> binder, context |-> context_, threw |-> FALSE,
          attempts |-> 0]
    ELSE LET created == createVertexBuffer(context_, binder.vertexVector, fails)
         IN  [binder |->
                [binder EXCEPT
                    !.vertexVector = created.vertexVector,
                    !.vertexBuffer = IF created.threw THEN @ ELSE created.buffer],
              context |-> created.context,
              threw |-> created.threw,
              attempts |-> 1]

ConstantBinding(value) == [kind |-> "constant", value |-> value]

\* Attribute::variableBinding(buffer, attributeIndex, attributeSize)
variableBinding(buffer, attributeIndex, attributeSize) ==
    [kind |-> "buffer", buffer |-> buffer, attributeIndex |-> attributeIndex,
     attributeSize |-> attributeSize]

\* what the shader receives in the components of the doubled-width
\* attribute for one vertex: a constant binding supplies them all, a buffer
\* binding supplies the first attributeSize of them from the vertex and the
\* others take the default of an attribute component (0, and 1 for the
\* fourth)
presented(binding, vertex, width) ==
    IF binding.kind = "constant"
    THEN binding.value
    ELSE [i \in 1..width |->
            IF i <= binding.attributeSize THEN vertex[i]
            ELSE IF i = 4 THEN 1 ELSE 0]

\* *vertexBuffer: the buffer when there is one; reading an empty optional is
\* undefined, it yields an indeterminate buffer object or stops the program
Crashed == [kind |-> "crashed"]
Indeterminate == [id |-> 0, vertices |-> <<>>]

\* attributeBinding whose Source binder binds the buffer at the doubled width
attributeBindingFullWidth(binder, p, currentValue) ==
    IF binder.kind = "constant"
    THEN LET value == attributeValue(p, constantOr(currentValue, binder.constant))
         IN  { [binding |-> ConstantBinding(zoomInterpolatedAttributeValue(value, value)),
                readsBuffer |-> FALSE] }
    ELSE IF isConstant(currentValue)
    THEN LET value == attributeValue(p, currentValue.constant)
         IN  { [binding |-> ConstantBinding(zoomInterpolatedAttributeValue(value, value)),
                readsBuffer |-> FALSE] }
    ELSE IF binder.vertexBuffer # None
         THEN { [binding |-> variableBinding(binder.vertexBuffer, 0, 2 * Dimensions(p)),
                 readsBuffer |-> TRUE] }
         ELSE { [binding |-> variableBinding(Indeterminate, 0, 2 * Dimensions(p)),
                 readsBuffer |-> TRUE],
                [binding |-> Crashed, readsBuffer |-> TRUE] }

\* attributeBinding whose Constant binder ignores currentValue
attributeBindingStored(binder, p, currentValue) ==
    IF binder.kind = "constant"
    THEN LET value == attributeValue(p, binder.constant)
         IN  { [binding |-> ConstantBinding(zoomInterpolatedAttributeValue(value, value)),
                readsBuffer |-> FALSE] }
    ELSE IF isConstant(currentValue)
    THEN LET value == attributeValue(p, currentValue.constant)
         IN  { [binding |-> ConstantBinding(zoomInterpolatedAttributeValue(value, value)),
                readsBuffer |-> FALSE] }
    ELSE LET size == IF binder.kind = "source" THEN Dimensions(p)
                     ELSE 2 * Dimensions(p)
         IN  IF binder.vertexBuffer # None
             THEN { [binding |-> variableBinding(binder.vertexBuffer, 0, size),
                     readsBuffer |-> TRUE] }
             ELSE { [binding |-> variableBinding(Indeterminate, 0, size),
                     readsBuffer |-> TRUE],
                    [binding |-> Crashed, readsBuffer |-> TRUE] }

\* attributeBinding that decides by the binder's own strategy, not by the
\* tag of currentValue
attributeBindingByStrategy(binder, p, currentValue) ==
    IF binder.kind = "constant"
    THEN LET value == attributeValue(p, constantOr(currentValue, binder.constant))
         IN  { [binding |-> ConstantBinding(zoomInterpolatedAttributeValue(value, value)),
                readsBuffer |-> FALSE] }
    ELSE LET size == IF binder.kind = "source" THEN Dimensions(p)
                     ELSE 2 * Dimensions(p)
         IN  IF binder.vertexBuffer # None
             THEN { [binding |-> variableBinding(binder.vertexBuffer, 0, size),
                     readsBuffer |-> TRUE] }
             ELSE { [binding |-> variableBinding(Indeterminate, 0, size),
                     readsBuffer |-> TRUE],
                    [binding |-> Crashed, readsBuffer |-> TRUE] }

\* attributeBinding(currentValue) of the three binders: the set of results
\* the call can have, each with whether it read the binder's vertexBuffer
attributeBinding(binder, p, currentValue) ==
    IF binder.kind = "constant"
    THEN LET value == attributeValue(p, constantOr(currentValue, binder.constant))
         IN  { [binding |-> ConstantBinding(zoomInterpolatedAttributeValue(value, value)),
                readsBuffer |-> FALSE] }
    ELSE IF isConstant(currentValue)
    THEN LET value == attributeValue(p, currentValue.constant)
         IN  { [binding |-> ConstantBinding(zoomInterpolatedAttributeValue(value, value)),
                readsBuffer |-> FALSE] }
    ELSE LET size == IF binder.kind = "source" THEN Dimensions(p)
                     ELSE 2 * Dimensions(p)
         IN  IF binder.vertexBuffer # None
             THEN { [binding |-> variableBinding(binder.vertexBuffer, 0, size),
                     readsBuffer |-> TRUE] }
             ELSE { [binding |-> variableBinding(Indeterminate, 0, size),
                     readsBuffer |-> TRUE],
                    [binding |-> Crashed, readsBuffer |-> TRUE] }

\* interpolationFactor clamped to the bracket
interpolationFactorClamped(binder, currentZoom) ==
    IF binder.kind = "composite"
    THEN LET range == binder.coveringRanges[1]
             zoom == IF currentZoom < range.min THEN range.min
                     ELSE IF currentZoom > range.max THEN range.max
                     ELSE currentZoom
         IN  utilInterpolationFactor(1, range, zoom)
    ELSE Frac(0, 1)

\* interpolationFactor whose Source binder answers 1
interpolationFactorSourceOne(binder, currentZoom) ==
    IF binder.kind = "composite"
    THEN utilInterpolationFactor(1, binder.coveringRanges[1], currentZoom)
    ELSE IF binder.kind = "source" THEN Frac(1, 1) ELSE Frac(0, 1)

\* interpolationFactor measured from the upper end of the bracket
interpolationFactorFromMax(binder, currentZoom) ==
    IF binder.kind = "composite"
    THEN Frac(binder.coveringRanges[1].max - currentZoom,
              binder.coveringRanges[1].max - binder.coveringRanges[1].min)
    ELSE Frac(0, 1)

\* interpolationFactor(currentZoom) of the three binders
interpolationFactor(binder, currentZoom) ==
    IF binder.kind = "composite"
    THEN utilInterpolationFactor(1, binder.coveringRanges[1], currentZoom)
    ELSE Frac(0, 1)

\* ------------------------------------------------------------------------
\* State
\* ------------------------------------------------------------------------
VARIABLES
    properties,     \* the EvaluatedProperties the set was constructed from
    z,              \* the zoom the set was constructed for
    binders,        \* PaintPropertyBinders::binders, one binder per property
    statistics,     \* PaintPropertyBinders::statistics
    context,        \* the gl::Context: next buffer name, and what a move leaves
    ret,            \* the last call made on the set and what it returned
    firstExtender,  \* history: per vertex index, the feature of the first
                    \* populateVertexVectors call whose length reached past it
    phase,          \* history: where the run stands in the build protocol
    nCalls,         \* populateVertexVectors calls made
    nUploads,       \* upload calls made
    name,           \* InterpolationUniform<Attr>::name()'s static local, per
                    \* attribute: its initialisation guard and its storage
    workers         \* the threads calling InterpolationUniform<Attr>::name()

vars == << properties, z, binders, statistics, context, ret, firstExtender,
           phase, nCalls, nUploads, name, workers >>

Threads == {"t1", "t2"}

\* Attr::name(), as the pieces of the string
AttrName(p) == <<"a_", p>>

\* a static local before its initialisation: guard clear, storage raw
Uninitialized == [guard |-> "uninitialized", storage |-> <<>>, inits |-> 0]

Idle == [pc |-> "idle"]

\* PaintPropertyBinders(properties, z): Binder<Ps>::create(...) per property
PaintPropertyBinders(properties_, z_) ==
    [p \in PropSet |-> create(properties_[p], z_, defaultValue(p))]

\* the EvaluatedProperties whose value for each property p is in values[p]
EvaluatedProperties(values) ==
    {ps \in [PropSet -> UNION {values[p] : p \in PropSet}] :
        \A p \in PropSet : ps[p] \in values[p]}

Init ==
    /\ properties \in EvaluatedProperties([p \in PropSet |-> PropertyValues(p)])
    /\ z \in BuildZooms
    /\ binders = PaintPropertyBinders(properties, z)
    /\ statistics = [p \in PropSet |-> NoStatistics]
    /\ context \in [nextId : {1}, moveEmpties : BOOLEAN]
    /\ ret = [op |-> "construct"]
    /\ firstExtender = <<>>
    /\ phase = "populating"
    /\ nCalls = 0
    /\ nUploads = 0
    /\ name = [p \in PropSet |-> Uninitialized]
    /\ workers = [t \in Threads |-> Idle]

\* ------------------------------------------------------------------------
\* Operations of the binder set
\* ------------------------------------------------------------------------
\* the fan-out of populateVertexVectors, in the order of the property list
RECURSIVE populateFrom(_, _, _, _, _)
\* the fan-out that populates the first binder of the list only
populateFirstOnly(i, binders_, statistics_, feature, length) ==
    IF i > 1
    THEN [binders |-> binders_, statistics |-> statistics_]
    ELSE LET r == populateVertexVector(binders_[Props[i]], Props[i], feature,
                                       length, statistics_)
         IN  [binders |-> [binders_ EXCEPT ![Props[i]] = r.binder],
              statistics |-> r.statistics]

populateFrom(i, binders_, statistics_, feature, length) ==
    IF i > Len(Props)
    THEN [binders |-> binders_, statistics |-> statistics_]
    ELSE LET r == populateVertexVector(binders_[Props[i]], Props[i], feature,
                                       length, statistics_)
         IN  populateFrom(i + 1, [binders_ EXCEPT ![Props[i]] = r.binder],
                          r.statistics, feature, length)

\* the fan-out of upload, in the order of the property list; failAt is the
\* index of the property whose buffer creation fails (0: none fails), and
\* the failure ends the fan-out
RECURSIVE uploadFromSwallowing(_, _, _, _)
RECURSIVE uploadFrom(_, _, _, _)
\* the fan-out of upload that catches a binder's failure and goes on
uploadFromSwallowing(i, binders_, context_, failAt) ==
    IF i > Len(Props)
    THEN [binders |-> binders_, context |-> context_, threw |-> FALSE,
          attempts |-> [p \in PropSet |-> 0]]
    ELSE LET r == upload(binders_[Props[i]], context_, i = failAt)
             next == [binders_ EXCEPT ![Props[i]] = r.binder]
             rest == uploadFromSwallowing(i + 1, next, r.context, failAt)
         IN  [rest EXCEPT !.attempts[Props[i]] = @ + r.attempts]

uploadFrom(i, binders_, context_, failAt) ==
    IF i > Len(Props)
    THEN [binders |-> binders_, context |-> context_, threw |-> FALSE,
          attempts |-> [p \in PropSet |-> 0]]
    ELSE LET r == upload(binders_[Props[i]], context_, i = failAt)
             next == [binders_ EXCEPT ![Props[i]] = r.binder]
         IN  IF r.threw
             THEN [binders |-> next, context |-> r.context, threw |-> TRUE,
                   attempts |-> [p \in PropSet |->
                                    IF p = Props[i] THEN r.attempts ELSE 0]]
             ELSE LET rest == uploadFrom(i + 1, next, r.context, failAt)
                  IN  [rest EXCEPT !.attempts[Props[i]] = @ + r.attempts]

PopulateVertexVectors(feature, length) ==
    /\ nCalls + nUploads < MaxOps
    /\ LET r == populateFrom(1, binders, statistics, feature, length)
       IN  /\ binders' = r.binders
           /\ statistics' = r.statistics
    /\ ret' = [op |-> "populateVertexVectors"]
    /\ firstExtender' =
          [i \in 1..(IF length > Len(firstExtender) THEN length
                     ELSE Len(firstExtender)) |->
              IF i <= Len(firstExtender) THEN firstExtender[i] ELSE feature]
    /\ phase' = IF phase = "populating" THEN "populating" ELSE "offProtocol"
    /\ nCalls' = nCalls + 1
    /\ UNCHANGED << properties, z, context, nUploads, name, workers >>

Upload(failAt) ==
    /\ nCalls + nUploads < MaxOps
    /\ failAt # 0 => binders[Props[failAt]].kind # "constant"
    /\ LET r == uploadFrom(1, binders, context, failAt)
       IN  /\ binders' = r.binders
           /\ context' = r.context
           /\ ret' = [op |-> "upload", threw |-> r.threw,
                      attempts |-> r.attempts,
                      failed |-> IF failAt = 0 THEN {} ELSE {Props[failAt]}]
           /\ phase' = IF phase # "populating" THEN "offProtocol"
                       ELSE IF r.threw THEN "uploadFailed" ELSE "uploaded"
    /\ nUploads' = nUploads + 1
    /\ UNCHANGED << properties, z, statistics, firstExtender, nCalls, name, workers >>

\* the values currentProperties can hold for a property at draw time: the
\* other constant, or a function (a source function for the colour, a
\* composite function for the opacity)
CurrentValues(p) ==
    {ConstantValue(c) : c \in Constants(p) \ {BuildConstant(p)}}
        \cup (IF p = "color"
              THEN {SourceValue(f) : f \in SourceFunctions(p)}
              ELSE {CompositeValue(f) : f \in CompositeFunctions(p)})

\* the fan-out of attributeBindings: every tuple of results, one per property
RECURSIVE bindingsFrom(_, _)
bindingsFrom(i, currentProperties) ==
    IF i > Len(Props)
    THEN {<<>>}
    ELSE {<<first>> \o rest :
            first \in attributeBinding(binders[Props[i]], Props[i],
                                       currentProperties[Props[i]]),
            rest \in bindingsFrom(i + 1, currentProperties)}

\* attributeBindings that hands the buffers it binds over to the caller
AttributeBindingsConsuming(currentProperties) ==
    /\ \E value \in bindingsFrom(1, currentProperties) :
          /\ ret' = [op |-> "attributeBindings",
                     currentProperties |-> currentProperties,
                     value |-> [i \in 1..Len(Props) |-> value[i].binding],
                     readsBuffer |-> {Props[i] : i \in
                                        {j \in 1..Len(Props) : value[j].readsBuffer}}]
          /\ binders' = [p \in PropSet |->
                IF value[IndexOf(p)].readsBuffer
                THEN [binders[p] EXCEPT !.vertexBuffer = None]
                ELSE binders[p]]
    /\ UNCHANGED << properties, z, statistics, context, firstExtender,
                    phase, nCalls, nUploads, name, workers >>

AttributeBindings(currentProperties) ==
    /\ \E value \in bindingsFrom(1, currentProperties) :
          /\ ret' = [op |-> "attributeBindings",
                     currentProperties |-> currentProperties,
                     value |-> [i \in 1..Len(Props) |-> value[i].binding],
                     readsBuffer |-> {Props[i] : i \in
                                        {j \in 1..Len(Props) : value[j].readsBuffer}}]
    /\ UNCHANGED << properties, z, binders, statistics, context, firstExtender,
                    phase, nCalls, nUploads, name, workers >>

UniformValues(currentZoom) ==
    /\ ret' = [op |-> "uniformValues", currentZoom |-> currentZoom,
               value |-> [i \in 1..Len(Props) |->
                            interpolationFactor(binders[Props[i]], currentZoom)]]
    /\ UNCHANGED << properties, z, binders, statistics, context, firstExtender,
                    phase, nCalls, nUploads, name, workers >>

Next ==
    \/ \E feature \in Features, length \in 1..MaxLen :
            PopulateVertexVectors(feature, length)
    \/ \E failAt \in 0..Len(Props) : Upload(failAt)
    \/ \E currentProperties \in EvaluatedProperties([p \in PropSet |-> CurrentValues(p)]) :
            AttributeBindings(currentProperties)
    \/ \E currentZoom \in DrawZooms : UniformValues(currentZoom)

Spec == Init /\ [][Next]_vars

\* ------------------------------------------------------------------------
\* The attribute encoder on its own: every colour of the grid is encoded,
\* and the encoded pair is decoded as the shader decodes it
\* ------------------------------------------------------------------------
Channels == 0..4     \* the channel values 0, 0.25, 0.5, 0.75 and 1
Colors == {Color(r, g, b, a) : r \in Channels, g \in Channels,
                               b \in Channels, a \in Channels}

AttributeValueOfColor(color) ==
    /\ ret' = [op |-> "attributeValue", color |-> color,
               value |-> attributeValueColor(color)]
    /\ UNCHANGED << properties, z, binders, statistics, context, firstExtender,
                    phase, nCalls, nUploads, name, workers >>

DecodeColor ==
    /\ ret.op = "attributeValue"
    /\ ret' = [op |-> "decodeColor", color |-> ret.color, value |-> ret.value,
               channels |-> decodeColor(ret.value)]
    /\ UNCHANGED << properties, z, binders, statistics, context, firstExtender,
                    phase, nCalls, nUploads, name, workers >>

EncoderNext ==
    \/ \E color \in Colors : AttributeValueOfColor(color)
    \/ DecodeColor

\* the encoder is exercised beside one binder set, of constant properties
EncoderInit ==
    /\ Init
    /\ \A p \in PropSet : properties[p].tag = "constant"
    /\ ~context.moveEmpties

EncoderSpec == EncoderInit /\ [][EncoderNext]_vars

\* ------------------------------------------------------------------------
\* InterpolationUniform<Attr>::name() called from several threads. The static
\* local is initialised under the guard the language gives a block-scope
\* static: the first thread to reach the declaration initialises it, a
\* thread reaching it meanwhile waits, and a thread reaching it afterwards
\* skips the initialisation.
\* ------------------------------------------------------------------------
binderState == << properties, z, binders, statistics, context, ret,
                  firstExtender, phase, nCalls, nUploads >>

\* a thread calls InterpolationUniform<attr>::name()
CallName(t, attr) ==
    /\ workers[t].pc = "idle"
    /\ workers' = [workers EXCEPT ![t] = [pc |-> "declaration", attr |-> attr]]
    /\ UNCHANGED << binderState, name >>

\* the declaration reached without the guard: a thread that finds the static
\* not yet initialised initialises it, whoever else is doing so
ReachDeclarationUnguarded(t) ==
    /\ workers[t].pc = "declaration"
    /\ LET attr == workers[t].attr
       IN  IF name[attr].guard = "initialized"
           THEN /\ workers' = [workers EXCEPT ![t].pc = "return"]
                /\ UNCHANGED name
           ELSE /\ name' = [name EXCEPT ![attr].guard = "initializing"]
                /\ workers' = [workers EXCEPT ![t].pc = "construct"]
    /\ UNCHANGED binderState

\* static const std::string name = ...: the declaration is reached
ReachDeclaration(t) ==
    /\ workers[t].pc = "declaration"
    /\ LET attr == workers[t].attr
       IN  CASE name[attr].guard = "initialized" ->
                    /\ workers' = [workers EXCEPT ![t].pc = "return"]
                    /\ UNCHANGED name
             [] name[attr].guard = "uninitialized" ->
                    /\ name' = [name EXCEPT ![attr].guard = "initializing"]
                    /\ workers' = [workers EXCEPT ![t].pc = "construct"]
             [] name[attr].guard = "initializing" ->
                    FALSE   \* the thread waits for the initialisation
    /\ UNCHANGED binderState

\* the initialiser runs: Attr::name() + std::string("_t") is built into the
\* storage, piece by piece
Construct(t) ==
    /\ workers[t].pc = "construct"
    /\ LET attr == workers[t].attr
           full == AttrName(attr) \o <<"_t">>
           done == IF name[attr].storage = full THEN 0
                   ELSE Len(name[attr].storage)
       IN  /\ name' = [name EXCEPT ![attr].storage = SubSeq(full, 1, done + 1)]
           /\ workers' = [workers EXCEPT ![t].pc =
                            IF done + 1 = Len(full) THEN "complete" ELSE "construct"]
    /\ UNCHANGED binderState

\* the initialisation completes: the guard is set
CompleteInitialization(t) ==
    /\ workers[t].pc = "complete"
    /\ name' = [name EXCEPT ![workers[t].attr].guard = "initialized",
                            ![workers[t].attr].inits = @ + 1]
    /\ workers' = [workers EXCEPT ![t].pc = "return"]
    /\ UNCHANGED binderState

\* return name.c_str(): the caller reads the string
ReturnName(t) ==
    /\ workers[t].pc = "return"
    /\ workers' = [workers EXCEPT ![t] =
            [pc |-> "idle", attr |-> workers[t].attr,
             observed |-> name[workers[t].attr].storage]]
    /\ UNCHANGED << binderState, name >>

NameNext ==
    \/ \E t \in Threads, attr \in PropSet : CallName(t, attr)
    \/ \E t \in Threads : ReachDeclaration(t)
    \/ \E t \in Threads : Construct(t)
    \/ \E t \in Threads : CompleteInitialization(t)
    \/ \E t \in Threads : ReturnName(t)

NameSpec == EncoderInit /\ [][NameNext]_vars

\* ------------------------------------------------------------------------
\* Properties
\* ------------------------------------------------------------------------
\* the properties bound by a Source-Function or Composite-Function binder
FunctionProps == {p \in PropSet : binders[p].kind # "constant"}

\* the encoded value a vertex filled for `feature` must carry, from the
\* value the set was constructed with
ExpectedVertex(p, feature) ==
    LET Eval(stop) == IF feature \in stop.defined THEN stop.value[feature]
                      ELSE defaultValue(p)
        function == properties[p].function
    IN  IF properties[p].tag = "source"
        THEN attributeValue(p, Eval(function))
        ELSE LET bracket == binders[p].coveringRanges[1]
             IN  attributeValue(p, Eval(function.stops[bracket.min]))
                    \o attributeValue(p, Eval(function.stops[bracket.max]))

\* C1: before any upload, the vertex sequence of every Source or Composite
\* binder is as long as the largest length passed to populateVertexVectors
\* so far (0 before the first call), and no call makes it shorter.
C1_AppendMonotonicity ==
    /\ [](phase = "populating" =>
            \A p \in FunctionProps :
                Len(binders[p].vertexVector) = Len(firstExtender))
    /\ [][phase' = "populating" =>
            \A p \in FunctionProps :
                Len(binders'[p].vertexVector) >= Len(binders[p].vertexVector)]_vars

C1_Witness ==
    /\ phase = "populating"
    /\ nCalls = 2
    /\ ret.op = "populateVertexVectors"
    /\ \E p \in FunctionProps : Len(binders[p].vertexVector) = 2

\* C2: a populateVertexVectors(feature, length) call leaves the first n
\* vertices of a Source or Composite binder of n vertices as they were,
\* gives the vertices n+1..length the encoded value of this feature and
\* appends nothing when length <= n; so before upload every vertex carries
\* the value of the feature whose call first reached past it.
C2_PopulateFrame ==
    /\ [][\A feature \in Features, length \in 1..MaxLen :
            (nCalls' # nCalls /\ PopulateVertexVectors(feature, length)) =>
                \A p \in FunctionProps :
                    LET old == binders[p].vertexVector
                        new == binders'[p].vertexVector
                    IN  /\ Len(new) = IF length > Len(old) THEN length ELSE Len(old)
                        /\ \A i \in 1..Len(old) : new[i] = old[i]
                        /\ \A i \in (Len(old) + 1)..Len(new) :
                                new[i] = ExpectedVertex(p, feature)]_vars
    /\ [](phase = "populating" =>
            \A p \in FunctionProps :
                \A i \in 1..Len(binders[p].vertexVector) :
                    /\ i <= Len(firstExtender)
                    /\ binders[p].vertexVector[i] = ExpectedVertex(p, firstExtender[i]))

C2_Witness ==
    /\ phase = "populating"
    /\ ret.op = "populateVertexVectors"
    /\ firstExtender = <<"f1", "f2">>
    /\ \E p \in FunctionProps :
            /\ Len(binders[p].vertexVector) = 2
            /\ binders[p].vertexVector[1] # binders[p].vertexVector[2]

\* C3: whenever the current value passed for a Source or Composite binder
\* is a constant, attributeBinding returns a constant binding whose min and
\* max halves both are the encoding of that constant, and does not read the
\* binder's uploaded buffer; this in every state of the binder.
C3_OverrideShortCircuit ==
    ret.op = "attributeBindings" =>
        \A i \in 1..Len(Props) :
            LET p == Props[i]
                current == ret.currentProperties[p]
                W == Dimensions(p)
            IN  (p \in FunctionProps /\ current.tag = "constant") =>
                    /\ ret.value[i].kind = "constant"
                    /\ Len(ret.value[i].value) = 2 * W
                    /\ SubSeq(ret.value[i].value, 1, W)
                            = attributeValue(p, current.constant)
                    /\ SubSeq(ret.value[i].value, W + 1, 2 * W)
                            = attributeValue(p, current.constant)
                    /\ p \notin ret.readsBuffer

C3_Witness ==
    /\ ret.op = "attributeBindings"
    /\ \E i \in 1..Len(Props) :
            /\ Props[i] \in FunctionProps
            /\ binders[Props[i]].vertexBuffer # None
            /\ Len(binders[Props[i]].vertexBuffer.vertices) > 0
            /\ ret.currentProperties[Props[i]].tag = "constant"
            /\ ret.value[i].kind = "constant"

\* C4: in a run that populates, then uploads once with success, then only
\* binds, every buffer-backed binding of a Source or Composite property
\* references the binder's uploaded buffer, and that buffer holds the vertex
\* sequence as population left it: as long as the largest target length,
\* each vertex with the encoded value of the feature that filled it.
C4_Handoff ==
    (phase = "uploaded" /\ ret.op = "attributeBindings") =>
        \A i \in 1..Len(Props) :
            LET p == Props[i]
            IN  (p \in FunctionProps /\ ret.currentProperties[p].tag # "constant") =>
                    /\ ret.value[i].kind = "buffer"
                    /\ ret.value[i].buffer = binders[p].vertexBuffer
                    /\ Len(ret.value[i].buffer.vertices) = Len(firstExtender)
                    /\ \A j \in 1..Len(firstExtender) :
                            ret.value[i].buffer.vertices[j]
                                = ExpectedVertex(p, firstExtender[j])

C4_Witness ==
    /\ phase = "uploaded"
    /\ ret.op = "attributeBindings"
    /\ firstExtender = <<"f2", "f1">>
    /\ \E i \in 1..Len(Props) :
            /\ ret.value[i].kind = "buffer"
            /\ Len(ret.value[i].buffer.vertices) = 2

\* C5 as stated: once a Source or Composite binder holds an uploaded buffer,
\* no later operation (populate, upload, binding, factor) changes that
\* buffer's handle or contents.
C5_BufferNeverChanges ==
    [][\A p \in FunctionProps :
            binders[p].vertexBuffer # None =>
                binders'[p].vertexBuffer = binders[p].vertexBuffer]_vars

\* C5 amended: once a Source or Composite binder holds an uploaded buffer,
\* populateVertexVectors, attributeBindings and uniformValues leave its
\* handle and contents as they are; only a further upload changes it, and it
\* replaces it by a newly created buffer that holds the binder's vertex
\* sequence as it stands at that upload.
C5_FrozenUntilNextUpload ==
    [][\A p \in FunctionProps :
            binders[p].vertexBuffer # None =>
                \/ binders'[p].vertexBuffer = binders[p].vertexBuffer
                \/ /\ nUploads' = nUploads + 1
                   /\ binders'[p].vertexBuffer.id = context.nextId
                            + Cardinality({q \in FunctionProps : IndexOf(q) < IndexOf(p)})
                   /\ binders'[p].vertexBuffer.id > binders[p].vertexBuffer.id
                   /\ binders'[p].vertexBuffer.vertices = binders[p].vertexVector]_vars

C5_Witness ==
    /\ phase = "offProtocol"
    /\ ret.op = "populateVertexVectors"
    /\ \E p \in FunctionProps :
            /\ binders[p].vertexBuffer # None
            /\ binders[p].vertexBuffer.vertices # binders[p].vertexVector
            /\ Len(binders[p].vertexVector) = 2

\* C6: the binder created for a property has the strategy of the tag of the
\* value the set was built from: constant, source or composite; every built
\* value has one of these three tags, and the strategy stays the same
\* whatever the tags of the current values of later attributeBindings calls.
C6_StrategySelection ==
    \A p \in PropSet :
        /\ properties[p].tag \in {"constant", "source", "composite"}
        /\ binders[p].kind = properties[p].tag
        /\ properties[p].tag = "constant" =>
                binders[p].constant = properties[p].constant
        /\ properties[p].tag # "constant" =>
                binders[p].function = properties[p].function

C6_Witness ==
    /\ ret.op = "attributeBindings"
    /\ nUploads > 0
    /\ ret.currentProperties["color"].tag = "source"
    /\ binders["color"].kind = "composite"
    /\ binders["opacity"].kind = "composite"
    /\ ret.currentProperties["opacity"].tag = "constant"

\* C7: attributeBinding on a Constant binder returns a constant binding,
\* never a buffer reference, whose min and max halves are both the encoding
\* of the current value when that is a constant and of the constant stored
\* at construction otherwise; populateVertexVectors and upload leave a
\* Constant binder and its statistics as constructed.
C7_ConstantBinder ==
    \A i \in 1..Len(Props) :
        LET p == Props[i]
            W == Dimensions(p)
        IN  properties[p].tag = "constant" =>
            /\ binders[p] = ConstantPaintPropertyBinder(properties[p].constant)
            /\ statistics[p] = NoStatistics
            /\ ret.op = "attributeBindings" =>
                LET current == ret.currentProperties[p]
                    encoded == attributeValue(p,
                                  IF current.tag = "constant" THEN current.constant
                                  ELSE properties[p].constant)
                IN  /\ ret.value[i].kind = "constant"
                    /\ Len(ret.value[i].value) = 2 * W
                    /\ SubSeq(ret.value[i].value, 1, W) = encoded
                    /\ SubSeq(ret.value[i].value, W + 1, 2 * W) = encoded
                    /\ p \notin ret.readsBuffer

C7_Witness ==
    /\ ret.op = "attributeBindings"
    /\ nCalls > 0
    /\ nUploads > 0
    /\ properties["color"].tag = "constant"
    /\ ret.currentProperties["color"] = ConstantValue(Color(4, 0, 0, 4))
    /\ ret.value[1] = ConstantBinding(<<65280, 255, 65280, 255>>)
    /\ properties["opacity"].tag = "constant"
    /\ ret.currentProperties["opacity"].tag = "composite"
    /\ ret.value[2] = ConstantBinding(<<1, 1>>)

\* C8: uniformValues(z) returns one factor per property, in the order of the
\* property list: 0 for every property bound by a Constant or Source binder,
\* whatever z and whatever the binder's state, and the Composite binder's
\* factor over its bracket for every composite property.
C8_UniformValues ==
    ret.op = "uniformValues" =>
        /\ Len(ret.value) = Len(Props)
        /\ \A i \in 1..Len(Props) :
                LET p == Props[i]
                IN  IF properties[p].tag = "composite"
                    THEN LET bracket == binders[p].coveringRanges[1]
                         IN  /\ ret.value[i][2] > 0
                             /\ ret.value[i][1] * (bracket.max - bracket.min)
                                    = (ret.currentZoom - bracket.min) * ret.value[i][2]
                    ELSE ret.value[i] = <<0, 1>>

C8_Witness ==
    /\ ret.op = "uniformValues"
    /\ ret.currentZoom = 13
    /\ nUploads > 0
    /\ properties["color"].tag = "source"
    /\ Len(binders["color"].vertexVector) > 0
    /\ properties["opacity"].tag = "composite"
    /\ ret.value = << <<0, 1>>, <<1, 2>> >>

\* C9 as stated: the factor a Composite binder returns is the interpolation
\* formula evaluated with the declared base of its function over the
\* bracket computed at construction (linear for base 1, exponential else).
C9_DeclaredBase ==
    ret.op = "uniformValues" =>
        \A i \in 1..Len(Props) :
            LET p == Props[i]
            IN  properties[p].tag = "composite" =>
                    ret.value[i] = utilInterpolationFactor(
                                        properties[p].function.base,
                                        binders[p].coveringRanges[1],
                                        ret.currentZoom)

\* C10: for a Composite binder of bracket [z0, z1], z0 < z1, whose function
\* has a base above 1, interpolationFactor is 0 at z0, 1 at z1 and
\* non-decreasing over z0..z1; uniformValues returns these factors.
C10_MonotonicBlend ==
    \A i \in 1..Len(Props) :
        LET p == Props[i]
        IN  (properties[p].tag = "composite" /\ properties[p].function.base > 1) =>
                LET bracket == binders[p].coveringRanges[1]
                    factor(zoom) == interpolationFactor(binders[p], zoom)
                IN  /\ bracket.min < bracket.max
                    /\ factor(bracket.min) = <<0, 1>>
                    /\ factor(bracket.max) = <<1, 1>>
                    /\ \A z1, z2 \in bracket.min..bracket.max :
                            z1 <= z2 => FracLeq(factor(z1), factor(z2))
                    /\ (ret.op = "uniformValues" /\ ret.currentZoom = bracket.min)
                            => ret.value[i] = <<0, 1>>
                    /\ (ret.op = "uniformValues" /\ ret.currentZoom = bracket.max)
                            => ret.value[i] = <<1, 1>>

C10_Witness ==
    /\ ret.op = "uniformValues"
    /\ ret.currentZoom = 14
    /\ properties["opacity"].tag = "composite"
    /\ properties["opacity"].function.base = 2
    /\ binders["opacity"].coveringRanges[1] = [min |-> 12, max |-> 14]
    /\ ret.value[2] = <<1, 1>>

\* C11: for every colour with channels in [0,1], decoding the encoded pair
\* with high = floor(f / 256), low = f mod 256 recovers floor(c * 255) of
\* each of the four channels, each in 0..255, none leaking into another.
C11_ColorRoundTrip ==
    /\ ret.op = "attributeValue" =>
            /\ ret.value[1] = ((ret.color.r * 255) \div 4) * 256
                                + ((ret.color.g * 255) \div 4)
            /\ ret.value[2] = ((ret.color.b * 255) \div 4) * 256
                                + ((ret.color.a * 255) \div 4)
    /\ ret.op = "decodeColor" =>
            /\ ret.channels.r = (ret.color.r * 255) \div 4
            /\ ret.channels.g = (ret.color.g * 255) \div 4
            /\ ret.channels.b = (ret.color.b * 255) \div 4
            /\ ret.channels.a = (ret.color.a * 255) \div 4
            /\ \A c \in {ret.channels.r, ret.channels.g,
                          ret.channels.b, ret.channels.a} : c \in 0..255

C11_Witness ==
    /\ ret.op = "decodeColor"
    /\ ret.color = Color(1, 4, 3, 0)
    /\ ret.channels = [r |-> 63, g |-> 255, b |-> 191, a |-> 0]

\* C12 as stated: the colour (0.5, 0.25, 0.75, 1.0) encodes to
\* f0 = 32575 and f1 = 48896.
C12_ScenarioAsStated ==
    (ret.op = "attributeValue" /\ ret.color = Color(2, 1, 3, 4)) =>
        ret.value = <<32575, 48896>>

\* C12 amended: the colour (0.5, 0.25, 0.75, 1.0) encodes to
\* f0 = 127 * 256 + 63 = 32575 and f1 = 191 * 256 + 255 = 49151.
C12_Scenario ==
    (ret.op = "attributeValue" /\ ret.color = Color(2, 1, 3, 4)) =>
        ret.value = <<32575, 49151>>

C12_Witness ==
    /\ ret.op = "attributeValue"
    /\ ret.color = Color(2, 1, 3, 4)
    /\ ret.value[1] = 32575

\* the vertices a binding is applied to: those of its buffer, or any one
\* vertex for a constant binding
BoundVertices(binding) ==
    IF binding.kind = "buffer"
    THEN {binding.buffer.vertices[j] : j \in 1..Len(binding.buffer.vertices)}
    ELSE {<<>>}

\* C13 as stated: every binding returned for a property bound by a Constant
\* or a Source binder, constant or buffer-backed, presents the same min and
\* max halves of the doubled-width attribute to the shader.
C13_IdenticalHalves ==
    ret.op = "attributeBindings" =>
        \A i \in 1..Len(Props) :
            LET p == Props[i]
                W == Dimensions(p)
            IN  (properties[p].tag \in {"constant", "source"}
                    /\ ret.value[i].kind \in {"constant", "buffer"}) =>
                    \A vertex \in BoundVertices(ret.value[i]) :
                        LET seen == presented(ret.value[i], vertex, 2 * W)
                        IN  SubSeq(seen, 1, W) = SubSeq(seen, W + 1, 2 * W)

\* C13 amended: every constant binding returned for a property bound by a
\* Constant or a Source binder presents the same min and max halves; the
\* buffer-backed binding of a Source binder covers only the min half: it
\* starts at component 0, is of the base width, and its vertices carry the
\* base-width value only, so the max half is not read from the buffer.
C13_SourceBindsMinHalf ==
    ret.op = "attributeBindings" =>
        \A i \in 1..Len(Props) :
            LET p == Props[i]
                W == Dimensions(p)
                binding == ret.value[i]
            IN  properties[p].tag \in {"constant", "source"} =>
                    /\ binding.kind = "constant" =>
                            /\ Len(binding.value) = 2 * W
                            /\ SubSeq(binding.value, 1, W)
                                    = SubSeq(binding.value, W + 1, 2 * W)
                    /\ binding.kind = "buffer" =>
                            /\ properties[p].tag = "source"
                            /\ binding.attributeIndex = 0
                            /\ binding.attributeSize = W
                            /\ \A vertex \in BoundVertices(binding) :
                                    /\ Len(vertex) = W
                                    /\ SubSeq(presented(binding, vertex, 2 * W), 1, W)
                                            = vertex

C13_Witness ==
    /\ ret.op = "attributeBindings"
    /\ properties["color"].tag = "source"
    /\ ret.value[1].kind = "buffer"
    /\ ret.value[1].buffer = binders["color"].vertexBuffer
    /\ Len(ret.value[1].buffer.vertices) = 2
    /\ properties["opacity"].tag = "constant"
    /\ ret.value[2].kind = "constant"

\* a draw-time call and its arguments
DrawCall(r) ==
    IF r.op = "attributeBindings" THEN <<r.op, r.currentProperties>>
    ELSE IF r.op = "uniformValues" THEN <<r.op, r.currentZoom>>
    ELSE <<>>

\* the call whose result is r read a buffer that was never created
ReadUncreated(r) ==
    /\ r.op = "attributeBindings"
    /\ \E p \in r.readsBuffer : binders[p].vertexBuffer = None

\* C14: attributeBindings and uniformValues leave every binder (vertex
\* sequence, uploaded buffer, covering bracket, stored constant), the
\* statistics and the context unchanged; the result of a draw-time call on
\* uploaded binders is a function of the binders and the arguments, so that
\* a call repeated with the same arguments returns the same result.
C14_DrawTimeReadOnly ==
    /\ [](\A currentProperties \in
                EvaluatedProperties([p \in PropSet |-> CurrentValues(p)]) :
            (\A p \in FunctionProps : binders[p].vertexBuffer # None) =>
                Cardinality(bindingsFrom(1, currentProperties)) = 1)
    /\ [][ret'.op \in {"attributeBindings", "uniformValues"} =>
            /\ binders' = binders
            /\ statistics' = statistics
            /\ context' = context
            /\ properties' = properties /\ z' = z
            /\ ret'.op = "uniformValues" =>
                    ret'.value = [i \in 1..Len(Props) |->
                        interpolationFactor(binders[Props[i]], ret'.currentZoom)]
            /\ (ret'.op = "attributeBindings" /\ ~ReadUncreated(ret')) =>
                    \A i \in 1..Len(Props) :
                        attributeBinding(binders[Props[i]], Props[i],
                                         ret'.currentProperties[Props[i]])
                            = {[binding |-> ret'.value[i],
                                readsBuffer |-> Props[i] \in ret'.readsBuffer]}
            /\ (DrawCall(ret') = DrawCall(ret)
                    /\ ~ReadUncreated(ret) /\ ~ReadUncreated(ret')) =>
                    ret'.value = ret.value
       ]_vars

C14_Witness ==
    /\ ret.op = "attributeBindings"
    /\ ret.readsBuffer = PropSet
    /\ \A p \in PropSet :
            /\ binders[p].vertexBuffer # None
            /\ Len(binders[p].vertexBuffer.vertices) >= 1
            /\ Len(binders[p].vertexVector) >= 1

\* C15: whatever the interleaving of the threads calling name(), for the
\* same or for different attributes, each attribute's name is initialised
\* at most once (exactly once when initialised), every caller that returns
\* observes the whole name <attributeName>_t, and an initialised name never
\* changes.
C15_NameInitializedOnce ==
    /\ [](\A p \in PropSet :
            /\ name[p].inits <= 1
            /\ name[p].guard = "initialized" =>
                    /\ name[p].inits = 1
                    /\ name[p].storage = AttrName(p) \o <<"_t">>
            /\ Cardinality({t \in Threads :
                    /\ workers[t].pc \in {"construct", "complete"}
                    /\ workers[t].attr = p}) <= 1)
    /\ [](\A t \in Threads :
            "observed" \in DOMAIN workers[t] =>
                workers[t].observed = AttrName(workers[t].attr) \o <<"_t">>)
    /\ [][\A p \in PropSet :
            name[p].guard = "initialized" => name'[p] = name[p]]_vars

\* both threads called name() for the same attribute while it was not
\* initialised, one of them initialised it, and both have returned
C15_Witness ==
    /\ \A t \in Threads :
            /\ workers[t].pc = "idle"
            /\ "observed" \in DOMAIN workers[t]
            /\ workers[t].attr = "color"
    /\ name["color"].inits = 1
    /\ name["opacity"].guard = "uninitialized"

\* C16: when createVertexBuffer fails during a binder's upload, the call of
\* PaintPropertyBinders::upload ends with the failure; the call attempts
\* the creation at most once per binder, and never again for the binder
\* that failed; the binder that failed keeps the buffer it had (none, on a
\* first upload), and every buffer a binder holds was created by the
\* context: the binders attempted without failure hold a buffer created by
\* this call, the others the buffer they held.
C16_UploadFailure ==
    /\ [](\A p \in FunctionProps :
            binders[p].vertexBuffer # None =>
                binders[p].vertexBuffer.id \in 1..(context.nextId - 1))
    /\ [][nUploads' # nUploads =>
            /\ ret'.op = "upload"
            /\ ret'.threw <=> ret'.failed # {}
            /\ \A p \in PropSet : ret'.attempts[p] <= 1
            /\ \A p \in PropSet \ FunctionProps : ret'.attempts[p] = 0
            /\ \A p \in ret'.failed :
                    /\ ret'.attempts[p] = 1
                    /\ binders'[p].vertexBuffer = binders[p].vertexBuffer
            /\ \A p \in FunctionProps :
                    IF ret'.attempts[p] = 1 /\ p \notin ret'.failed
                    THEN /\ binders'[p].vertexBuffer # None
                         /\ binders'[p].vertexBuffer.id
                                \in context.nextId..(context'.nextId - 1)
                         /\ binders'[p].vertexBuffer.vertices
                                = binders[p].vertexVector
                    ELSE binders'[p].vertexBuffer = binders[p].vertexBuffer
            /\ context'.nextId = context.nextId
                    + Cardinality({p \in PropSet :
                        ret'.attempts[p] = 1 /\ p \notin ret'.failed})
       ]_vars

\* the second binder's buffer creation failed on a first upload after the
\* first binder's succeeded
C16_Witness ==
    /\ ret.op = "upload"
    /\ ret.threw
    /\ ret.failed = {"opacity"}
    /\ nUploads = 1
    /\ binders["color"].kind # "constant"
    /\ binders["color"].vertexBuffer # None
    /\ binders["opacity"].vertexBuffer = None
    /\ Len(binders["color"].vertexBuffer.vertices) >= 1

\* C17: a Composite binder's covering bracket is the one computed at
\* construction from the function and the build zoom, and no call on the
\* set changes it; the factor uniformValues returns is measured against
\* that bracket: 0 at its lower end, 1 at its upper end, between them
\* inside, and unclamped outside, below 0 under the bracket and above 1
\* over it.
C17_BracketFixed ==
    /\ [](\A i \in 1..Len(Props) :
            LET p == Props[i]
            IN  properties[p].tag = "composite" =>
                    /\ binders[p].kind = "composite"
                    /\ binders[p].coveringRanges
                            = coveringRanges(properties[p].function, z)
                    /\ ret.op = "uniformValues" =>
                            LET range == coveringRanges(properties[p].function, z)[1]
                                factor == ret.value[i]
                                zoom == ret.currentZoom
                            IN  /\ zoom < range.min <=> factor[1] < 0
                                /\ zoom = range.min <=> factor = <<0, 1>>
                                /\ zoom = range.max <=> factor = <<1, 1>>
                                /\ zoom > range.max <=> factor[1] > factor[2]
                                /\ factor[2] > 0)
    /\ [][\A p \in PropSet :
            binders[p].kind = "composite" =>
                /\ binders'[p].kind = "composite"
                /\ binders'[p].coveringRanges = binders[p].coveringRanges]_vars

\* after a populate and an upload, the factor asked for a zoom above the
\* colour's bracket and the opacity's
C17_Witness ==
    /\ ret.op = "uniformValues"
    /\ ret.currentZoom = 15
    /\ nCalls >= 1 /\ nUploads >= 1
    /\ \A p \in PropSet : properties[p].tag = "composite"
    /\ ret.value[1] = <<5, 4>>
    /\ ret.value[2] = <<3, 2>>

\* value has the layout of the doubled-width attribute over min and max:
\* 2W channels, the first W those of min in order, the last W those of max
HasLayout(value, min, max, W) ==
    /\ Len(min) = W /\ Len(max) = W
    /\ Len(value) = 2 * W
    /\ \A k \in 1..W : value[k] = min[k] /\ value[W + k] = max[k]

\* C18: the doubled-width value of two W-channel arrays has 2W channels,
\* min's in order and then max's in order, for W = 1 (the opacity) and
\* W = 2 (the colour); every vertex of a Composite binder, in its vertex
\* sequence and in its uploaded buffer, has this layout over the encoded
\* range minimum and range maximum of a feature; where min = max (a feature
\* the function's stops do not define, or a constant binding) both halves
\* are equal.
C18_DoubledWidthLayout ==
    /\ Dimensions("opacity") = 1 /\ Dimensions("color") = 2
    /\ \A i \in 1..Len(Props) :
        LET p == Props[i]
            W == Dimensions(p)
            Encoded(stop, feature) ==
                attributeValue(p, IF feature \in stop.defined
                                  THEN stop.value[feature] ELSE defaultValue(p))
            Vertices == IF binders[p].kind # "composite" THEN {}
                        ELSE {binders[p].vertexVector[j] :
                                    j \in 1..Len(binders[p].vertexVector)}
                             \cup (IF binders[p].vertexBuffer = None THEN {}
                                   ELSE {binders[p].vertexBuffer.vertices[j] :
                                    j \in 1..Len(binders[p].vertexBuffer.vertices)})
        IN  /\ \A vertex \in Vertices :
                    \E feature \in Features :
                        LET range == coveringRanges(properties[p].function, z)[2]
                            min == Encoded(range.min, feature)
                            max == Encoded(range.max, feature)
                        IN  /\ HasLayout(vertex, min, max, W)
                            /\ min = max =>
                                    SubSeq(vertex, 1, W) = SubSeq(vertex, W + 1, 2 * W)
            /\ (ret.op = "attributeBindings" /\ ret.value[i].kind = "constant") =>
                    LET value == attributeValue(p,
                            constantOr(ret.currentProperties[p],
                                       IF binders[p].kind = "constant"
                                       THEN binders[p].constant
                                       ELSE defaultValue(p)))
                    IN  HasLayout(ret.value[i].value, value, value, W)

\* the colour's and the opacity's Composite binders hold a vertex whose
\* range minimum and maximum differ, and one where they are equal
C18_Witness ==
    /\ \A p \in PropSet :
            /\ binders[p].kind = "composite"
            /\ Len(binders[p].vertexVector) = 2
            /\ LET first == binders[p].vertexVector[1]
                   second == binders[p].vertexVector[2]
                   W == Dimensions(p)
               IN  /\ SubSeq(first, 1, W) # SubSeq(first, W + 1, 2 * W)
                   /\ SubSeq(second, 1, W) = SubSeq(second, W + 1, 2 * W)
    /\ binders["color"].vertexVector[1][2] # binders["color"].vertexVector[1][3]

\* what a populateVertexVector call for `feature` must record for p, from
\* the value the set was constructed with: the function's value for a
\* Source binder, the (min, max) range over the bracket for a Composite one
ExpectedRecord(p, feature) ==
    LET Eval(stop) == IF feature \in stop.defined THEN stop.value[feature]
                      ELSE defaultValue(p)
        function == properties[p].function
    IN  IF properties[p].tag = "source"
        THEN Eval(function)
        ELSE LET bracket == coveringRanges(function, z)[1]
             IN  [min |-> Eval(function.stops[bracket.min]),
                  max |-> Eval(function.stops[bracket.max])]

\* C19: every populateVertexVectors call adds, for each Source or Composite
\* binder, exactly one record to the statistics of the binder's own
\* property, the function's value for the feature (the (min, max) range for
\* a Composite binder), also when the call appends no vertex; it adds
\* nothing for a Constant binder, whose statistics stay empty; upload,
\* attributeBindings and uniformValues leave the statistics as they are.
C19_StatisticsRecording ==
    /\ [][\A feature \in Features, length \in 1..MaxLen :
            (nCalls' # nCalls /\ PopulateVertexVectors(feature, length)) =>
                \A p \in PropSet :
                    IF p \in FunctionProps
                    THEN /\ statistics'[p].count = statistics[p].count + 1
                         /\ statistics'[p].observed = statistics[p].observed
                                \cup {ExpectedRecord(p, feature)}
                    ELSE statistics'[p] = statistics[p]]_vars
    /\ [][nCalls' = nCalls => statistics' = statistics]_vars
    /\ [](\A p \in PropSet :
            IF p \in FunctionProps
            THEN statistics[p].count = nCalls
            ELSE statistics[p] = NoStatistics)

\* two calls were recorded for a binder that holds one vertex: the second
\* call appended nothing, and recorded the value of another feature
C19_Witness ==
    /\ ret.op = "populateVertexVectors"
    /\ nCalls = 2 /\ nUploads = 0
    /\ properties["color"].tag = "source"
    /\ properties["opacity"].tag = "constant"
    /\ Len(binders["color"].vertexVector) = 1
    /\ statistics["color"].count = 2
    /\ Cardinality(statistics["color"].observed) = 2
    /\ statistics["opacity"] = NoStatistics

\* C20: before any upload, the Source and Composite binders of the set all
\* hold as many vertices as the largest length passed to
\* populateVertexVectors so far, the vertices at one index were filled, in
\* every binder, for one and the same feature, and a Constant binder holds
\* no vertex sequence and no buffer.
C20_LengthAgreement ==
    nUploads = 0 =>
        /\ \A p, q \in FunctionProps :
                /\ Len(binders[p].vertexVector) = Len(binders[q].vertexVector)
                /\ Len(binders[p].vertexVector) = Len(firstExtender)
                /\ \A i \in 1..Len(binders[p].vertexVector) :
                        \E feature \in Features :
                            /\ binders[p].vertexVector[i] = ExpectedVertex(p, feature)
                            /\ binders[q].vertexVector[i] = ExpectedVertex(q, feature)
                            /\ feature = firstExtender[i]
        /\ (nCalls = 0) = (firstExtender = <<>>)
        /\ \A p \in PropSet \ FunctionProps :
                /\ binders[p].kind = "constant"
                /\ DOMAIN binders[p] \cap {"vertexVector", "vertexBuffer"} = {}

\* two function binders after two calls of growing length for two features
C20_Witness ==
    /\ nUploads = 0 /\ nCalls = 2
    /\ FunctionProps = PropSet
    /\ binders["color"].kind # binders["opacity"].kind
    /\ firstExtender = <<"f2", "f1">>
    /\ \A p \in PropSet :
            /\ Len(binders[p].vertexVector) = 2
            /\ binders[p].vertexVector[1] # binders[p].vertexVector[2]

====
